---- MODULE Spec2Model ----
(***************************************************************************)
(* A model of the ray caster in raytracer_cpp/main.cpp: main builds the    *)
(* scene and the camera (InitScene), then DrawScene walks the pixel grid,  *)
(* TraceRay shades each pixel and FindFirstIntersector answers the primary *)
(* and the shadow queries.                                                 *)
(*                                                                         *)
(* Numbers.  A float is a fixed-point integer.  Material components are in *)
(* tenths (0.7f is 7), the accumulated `color` of TraceRay is in           *)
(* hundredths (a product of two material components), and the scaled color *)
(* of DrawScene is in hundredths of an 8-bit step (255.0f is 25500).       *)
(* Distances are 1..MaxDist, all below FLT_MAX.  The geometry of           *)
(* sceneobjects.h and camera.h is not part of main.cpp: what Intersects    *)
(* reports for a ray, the dot products of the shading terms and the tile   *)
(* an intersection point falls on are drawn from every value they can      *)
(* take.                                                                   *)
(***************************************************************************)
EXTENDS Integers, Sequences, FiniteSets

\* ------------------------------------------------------------------ bounds
\* The image is ImageWidth x ImageHeight pixels (512 x 512 in main.cpp).
ImageWidth == 2
ImageHeight == 2
\* The longest scene list InitScene builds here.
MaxObjects == 2
\* Intersects reports a distance in 1..MaxDist.
MaxDist == 2

\* ------------------------------------------------------- program constants
MaxDepth == 3
FieldOfView == 60
\* minDistance starts at FLT_MAX, above every distance Intersects reports.
FLT_MAX == MaxDist + 1
\* An empty std::shared_ptr<SceneObject>.
NULL == 0

\* ------------------------------------------------------------------- vec3
vec3(a, b, c) == <<a, b, c>>
VAdd(u, v) == <<u[1] + v[1], u[2] + v[2], u[3] + v[3]>>
VMul(u, v) == <<u[1] * v[1], u[2] * v[2], u[3] * v[3]>>
VScale(k, v) == <<k * v[1], k * v[2], k * v[3]>>
Zero3 == vec3(0, 0, 0)
Min(a, b) == IF a < b THEN a ELSE b
Max(a, b) == IF a < b THEN b ELSE a

\* A clamp that forgets maxVal.
ClampNoUpper(v, lo, hi) == Max(v, lo)
\* glm::clamp(x, minVal, maxVal) on one component: min(max(x, minVal), maxVal).
clamp1(v, lo, hi) == Min(Max(v, lo), hi)
clamp(v, lo, hi) == <<clamp1(v[1], lo[1], hi[1]), clamp1(v[2], lo[2], hi[2]), clamp1(v[3], lo[3], hi[3])>>

\* -------------------------------------------------------------- materials
Material(a, s, e, r) == [albedo |-> a, specular |-> s, emissive |-> e, reflectance |-> r]
\* The blue ball and the yellow ball on the floor.
BlueMat == Material(vec3(0, 3, 10), vec3(0, 0, 10), vec3(0, 0, 0), 0)
YellowMat == Material(vec3(10, 10, 10), vec3(0, 0, 0), vec3(10, 10, 2), 0)
\* The two materials of a tiled plane's checkerboard, which differ in every
\* component: the even tiles and the odd tiles.
TileLight == Material(vec3(10, 10, 10), vec3(0, 0, 0), vec3(0, 0, 0), 0)
TileGlossy == Material(vec3(2, 2, 2), vec3(5, 5, 5), vec3(1, 1, 1), 0)

Sphere(mat) == [kind |-> "Sphere", mat |-> mat, mat2 |-> mat]
TiledPlane(even, odd) == [kind |-> "TiledPlane", mat |-> even, mat2 |-> odd]

\* The objects a scene is built from.
Palette == {Sphere(BlueMat), Sphere(YellowMat), TiledPlane(TileLight, TileGlossy)}

RECURSIVE SeqsUpTo(_, _)
SeqsUpTo(S, n) ==
  IF n = 0 THEN {<<>>}
  ELSE LET shorter == SeqsUpTo(S, n - 1)
       IN shorter \cup {Append(s, e) : s \in {t \in shorter : Len(t) = n - 1}, e \in S}

\* Every scene list of at most MaxObjects objects, the empty one included.
Scenes == SeqsUpTo(Palette, MaxObjects)
\* The scenes that hold a ground plane, as the scene of main.cpp does.
GroundScenes == {s \in Scenes : \E i \in 1..Len(s) : s[i].kind = "TiledPlane"}

\* A point is known by the tile of the checkerboard it falls on: 0 an even
\* tile, 1 an odd one.  vec3(0, 0, 0) lies on tile 0.
Points == {0, 1}
Origin == 0

\* SceneObject::GetMaterial(pos): a sphere has one material, a tiled plane
\* picks one of its two by the parity of the tile.
GetMaterial(o, pos) == IF o.kind = "TiledPlane" /\ pos = 1 THEN o.mat2 ELSE o.mat

\* The camera of InitScene (positions in tenths).
Camera(position, lookAt, fov, w, h) ==
  [position |-> position, lookAt |-> lookAt, fov |-> fov, width |-> w, height |-> h]
TheCamera == Camera(vec3(0, 60, 80), vec3(0, -8, -10), FieldOfView, ImageWidth, ImageHeight)

VARIABLES
  pc,            \* where main is
  sceneObjects,  \* the scene list
  pCamera,       \* the camera, NULL before InitScene
  x, y,          \* the loop counters of DrawScene
  rayorig,       \* TraceRay's arguments
  depth,
  obj,           \* TraceRay's locals
  minDistance,
  interPos,
  albedo,
  color,
  light,         \* position of the range-for over sceneObjects
  occluder,
  dis,
  intensity,
  specular_intensity,
  hits,          \* FindFirstIntersector called on its own: what Intersects reported,
  pObject,       \* the object it returned
  dst,           \* and the distance it set
  queries,       \* FindFirstIntersector calls made for the current pixel
  active,        \* TraceRay activations on the call stack
  traced,        \* TraceRay calls made for the current pixel
  accumulated,   \* whether the last candidate's terms were added to color
  contribution,  \* what the last candidate added to color
  nullDeref,     \* whether an empty obj has been dereferenced
  drawColor,     \* DrawScene's local color
  bitmap,        \* the pixels PutPixel was called for, in call order
  lastPut        \* the arguments of the last PutPixel call

vars ==
  <<pc, sceneObjects, pCamera, x, y, rayorig, depth, obj, minDistance, interPos,
    albedo, color, light, occluder, dis, intensity, specular_intensity, hits,
    pObject, dst, queries, active, traced, accumulated, contribution, nullDeref, drawColor,
    bitmap, lastPut>>

\* ------------------------------------------------- FindFirstIntersector
\* What Intersects reports for one object: whether the ray hits it and, in
\* `distance`, how far.  When it reports no hit, `distance` is not read (it
\* stands at 1 here).
Reports == [hit : {TRUE}, distance : 1..MaxDist] \cup {[hit |-> FALSE, distance |-> 1]}
HitVectors == [1..Len(sceneObjects) -> Reports]
\* The camera stands above the ground and looks down at it, so each of its
\* rays meets every ground plane of the scene.
PrimaryHitVectors ==
  {h \in HitVectors : \A i \in 1..Len(sceneObjects) : sceneObjects[i].kind = "TiledPlane" => h[i].hit}

\* A scan that drops the test of what Intersects returned.
AlwaysIntersects(h) == TRUE
\* if (obj->Intersects(from, dir, distance))
Intersects(h) == h.hit

\* The comparison with <=, under which a later object at the same distance
\* replaces the earlier one.
CloserOrEqual(distance, least) == distance <= least
\* if (distance < minDistance)
Closer(distance, least) == distance < least

\* The scan over sceneObjects, in list order, from minDistance = FLT_MAX and
\* an empty pObject; the result is the pair (pObject, dst).
FindFirstIntersector(h) ==
  LET scan[i \in 0..Len(sceneObjects)] ==
        IF i = 0 THEN [pObject |-> NULL, dst |-> FLT_MAX]
        ELSE IF Intersects(h[i]) /\ Closer(h[i].distance, scan[i - 1].dst)
             THEN [pObject |-> i, dst |-> h[i].distance]
             ELSE scan[i - 1]
  IN scan[Len(sceneObjects)]

\* ---------------------------------------------------------------- shading
\* The values a dot product of two unit vectors is drawn from.
DotValues == {-1, 0, 1}
\* What an invalid read may yield for a vec3.
Garbage == {vec3(-10, 0, 20), vec3(3, 3, 3)}

\* A test that takes a shadow ray hitting nothing for a free path.
OcclusionUnlessMiss(occ, l) == occ # NULL /\ occ # l
\* auto occlusionOccurred = occluder != light;  (shared_ptr identity: each
\* object of the list is its own allocation, known here by its position)
OcclusionOccurred(occ, l) == occ # l

\* A loop that passes over the objects that emit nothing.
NextLightSkippingDark(l) ==
  LET later == {j \in (l + 1)..Len(sceneObjects) : GetMaterial(sceneObjects[j], Origin).emissive # Zero3}
  IN IF later = {} THEN Len(sceneObjects) + 1 ELSE CHOOSE j \in later : \A k \in later : j <= k
\* The range-for over sceneObjects steps to the next object.
NextLight(l) == l + 1

\* ------------------------------------------------------------- DrawScene
\* An inner loop that stops one column early.
NextPixelShortRow(px, py) == IF px + 1 < ImageWidth - 1 THEN <<px + 1, py>> ELSE <<0, py + 1>>
\* x++ of the inner loop, and y++ with x = 0 when the row is finished.
NextPixel(px, py) == IF px + 1 < ImageWidth THEN <<px + 1, py>> ELSE <<0, py + 1>>

\* uint8_t(c) for a float c (in hundredths): the truncation when c is in
\* range; out of range the conversion is undefined, and builds wrap or
\* saturate.
Uint8(c) == IF 0 <= c /\ c < 25600 THEN {c \div 100} ELSE {(c \div 100) % 256, 0, 255}

\* ------------------------------------------------------------------ main
Init ==
  /\ pc = "InitScene"
  /\ sceneObjects = <<>>
  /\ pCamera = NULL
  /\ x = 0 /\ y = 0
  /\ rayorig = Zero3 /\ depth = 0
  /\ obj = NULL /\ minDistance = 0 /\ interPos = Origin
  /\ albedo = Zero3 /\ color = Zero3
  /\ light = 0 /\ occluder = NULL /\ dis = 0
  /\ intensity = 0 /\ specular_intensity = 0
  /\ hits = <<>> /\ pObject = NULL /\ dst = 0
  /\ queries = 0 /\ active = 0 /\ traced = 0
  /\ accumulated = FALSE /\ contribution = Zero3
  /\ nullDeref = FALSE
  /\ drawColor = Zero3
  /\ bitmap = <<>>
  /\ lastPut = <<>>

locals == <<obj, minDistance, interPos, albedo, color, light, occluder, dis, intensity, specular_intensity>>
shadeVars == <<accumulated, contribution>>
queryVars == <<hits, pObject, dst>>
callVars == <<rayorig, depth, active, traced>>
outVars == <<drawColor, bitmap, lastPut, x, y>>

\* InitScene: the camera, then the objects pushed onto sceneObjects.
InitScene(S) ==
  /\ pc = "InitScene"
  /\ \E s \in S : sceneObjects' = s
  /\ pCamera' = TheCamera
  /\ pc' = "DrawScene"
  /\ UNCHANGED <<locals, shadeVars, callVars, outVars, queryVars, queries, nullDeref>>

\* DrawScene, the loop heads and the call TraceRay(pCamera->position, ray, 0).
\* The color of the pixel before, and what was handed to PutPixel for it,
\* are out of scope.
DrawPixel ==
  /\ pc = "DrawScene"
  /\ y < ImageHeight
  /\ rayorig' = pCamera.position
  /\ depth' = 0
  /\ active' = active + 1
  /\ traced' = 1
  /\ queries' = 0
  /\ nullDeref' = FALSE
  /\ color' = Zero3
  /\ drawColor' = Zero3
  /\ lastPut' = <<>>
  /\ pc' = "TraceRay"
  /\ UNCHANGED <<sceneObjects, pCamera, obj, minDistance, interPos, albedo, light, occluder,
                 dis, intensity, specular_intensity, shadeVars, queryVars, bitmap, x, y>>

\* DrawScene returns when the outer loop ends.
DrawDone ==
  /\ pc = "DrawScene"
  /\ ~(y < ImageHeight)
  /\ pc' = "Done"
  /\ UNCHANGED <<sceneObjects, pCamera, locals, shadeVars, callVars, outVars, queryVars, queries, nullDeref>>

\* TraceRay, lines 93-94: the primary query.
TracePrimary ==
  /\ pc = "TraceRay"
  /\ \E h \in PrimaryHitVectors :
       /\ obj' = FindFirstIntersector(h).pObject
       /\ minDistance' = FindFirstIntersector(h).dst
  /\ queries' = queries + 1
  /\ pc' = "Hit"
  /\ UNCHANGED <<sceneObjects, pCamera, interPos, albedo, color, light, occluder, dis,
                 intensity, specular_intensity, shadeVars, callVars, outVars, queryVars,
                 nullDeref>>

\* TraceRay, lines 96-100, with an object hit: what it does to its locals.
\* interPos is any point of the object; the normal fetched there is not
\* kept, the dot products taken with it are drawn in TraceShade.  albedo is
\* read at interPos, the emissive value at vec3(0, 0, 0).
TraceHitLocals ==
  /\ pc = "Hit"
  /\ obj # NULL
  /\ \E p \in Points :
       /\ interPos' = p
       /\ albedo' = GetMaterial(sceneObjects[obj], p).albedo
  /\ color' = VScale(10, GetMaterial(sceneObjects[obj], Origin).emissive)
  /\ light' = 1
  /\ UNCHANGED queryVars
  /\ pc' = "Light"
  /\ UNCHANGED <<obj, minDistance, occluder, dis, intensity, specular_intensity,
                 shadeVars, callVars, outVars, queries, nullDeref>>

\* The list with its i-th object moved to the front.
MoveToFront(s, i) == <<s[i]>> \o [j \in 1..(Len(s) - 1) |-> IF j < i THEN s[j] ELSE s[j + 1]]

\* A TraceRay that moves the object it hit to the front of the list.
TraceHitCaching == TraceHitLocals /\ sceneObjects' = MoveToFront(sceneObjects, obj) /\ pCamera' = pCamera
\* TraceRay, lines 96-100, with an object hit; it reads the scene and the
\* camera and leaves them alone.
TraceHit == TraceHitLocals /\ UNCHANGED <<sceneObjects, pCamera>>

\* TraceRay, lines 96-100, with nothing hit: obj is empty and obj-> is
\* undefined.  The process dies, or it reads on with whatever it finds.
TraceNullDeref ==
  /\ pc = "Hit"
  /\ obj = NULL
  /\ nullDeref' = TRUE
  /\ UNCHANGED queryVars
  /\ \/ /\ pc' = "Crashed"
        /\ UNCHANGED <<interPos, albedo, color, light>>
     \/ /\ \E p \in Points : interPos' = p
        /\ \E a \in Garbage : albedo' = a
        /\ \E e \in Garbage : color' = VScale(10, e)
        /\ light' = 1
        /\ pc' = "Light"
  /\ UNCHANGED <<sceneObjects, pCamera, obj, minDistance, occluder, dis, intensity,
                 specular_intensity, shadeVars, callVars, outVars, queries>>

\* TraceRay, lines 103-109: the shadow query towards the candidate `light`.
TraceShadow ==
  /\ pc = "Light"
  /\ light <= Len(sceneObjects)
  /\ \E h \in HitVectors :
       /\ occluder' = FindFirstIntersector(h).pObject
       /\ dis' = FindFirstIntersector(h).dst
  /\ queries' = queries + 1
  /\ pc' = "Shade"
  /\ UNCHANGED <<sceneObjects, pCamera, obj, minDistance, interPos, albedo, color, light,
                 intensity, specular_intensity, shadeVars, callVars, outVars, queryVars,
                 nullDeref>>

\* The specular color line 120 reads: of the material at vec3(0, 0, 0).
HitSpecular == IF obj = NULL THEN Garbage ELSE {GetMaterial(sceneObjects[obj], Origin).specular}

\* TraceRay, lines 110-121: the occlusion test and the two terms.
TraceShade ==
  /\ pc = "Shade"
  /\ IF ~OcclusionOccurred(occluder, light)
     THEN \E d1 \in DotValues, d2 \in DotValues, spec \in HitSpecular :
            LET i1 == Max(d1, 0)
                i2 == d2 * d2
                diffuse == VScale(i1, VMul(albedo, GetMaterial(sceneObjects[light], Origin).emissive))
                specular == VScale(10 * i2, spec)
            IN /\ intensity' = i1
               /\ specular_intensity' = i2
               /\ contribution' = VAdd(diffuse, specular)
               /\ color' = VAdd(VAdd(color, diffuse), specular)
               /\ accumulated' = TRUE
     ELSE /\ accumulated' = FALSE
          /\ contribution' = Zero3
          /\ UNCHANGED <<color, intensity, specular_intensity>>
  /\ UNCHANGED queryVars
  /\ pc' = "NextLight"
  /\ UNCHANGED <<sceneObjects, pCamera, obj, minDistance, interPos, albedo, light, occluder,
                 dis, callVars, outVars, queries, nullDeref>>

\* The end of the loop body: its locals go out of scope and the range-for
\* steps on.
TraceNextLight ==
  /\ pc = "NextLight"
  /\ light' = NextLight(light)
  /\ occluder' = NULL /\ dis' = 0
  /\ intensity' = 0 /\ specular_intensity' = 0
  /\ accumulated' = FALSE /\ contribution' = Zero3
  /\ pc' = "Light"
  /\ UNCHANGED <<sceneObjects, pCamera, obj, minDistance, interPos, albedo, color,
                 callVars, outVars, queryVars, queries, nullDeref>>

\* TraceRay, line 126, and DrawScene, lines 144-145: the color comes back,
\* is scaled by 255 and clamped; TraceRay's other locals are gone.
TraceReturn ==
  /\ pc = "Light"
  /\ ~(light <= Len(sceneObjects))
  /\ active' = active - 1
  /\ drawColor' = clamp(VScale(255, color), vec3(0, 0, 0), vec3(25500, 25500, 25500))
  /\ obj' = NULL /\ minDistance' = 0 /\ interPos' = Origin
  /\ albedo' = Zero3 /\ light' = 0
  /\ pc' = "PutPixel"
  /\ UNCHANGED <<sceneObjects, pCamera, color, occluder, dis, intensity, specular_intensity,
                 shadeVars, rayorig, depth, traced, bitmap, lastPut, x, y, queryVars, queries,
                 nullDeref>>

\* DrawScene, line 148, and the loop increments.
PutPixel ==
  /\ pc = "PutPixel"
  /\ \E r \in Uint8(drawColor[1]), g \in Uint8(drawColor[2]), b \in Uint8(drawColor[3]) :
       lastPut' = [x |-> x, y |-> y, color |-> <<r, g, b>>]
  /\ bitmap' = Append(bitmap, <<x, y>>)
  /\ x' = NextPixel(x, y)[1]
  /\ y' = NextPixel(x, y)[2]
  /\ pc' = "DrawScene"
  /\ UNCHANGED <<sceneObjects, pCamera, locals, shadeVars, callVars, drawColor, queryVars,
                 queries, nullDeref>>

\* FindFirstIntersector called on its own, for any ray: every report the
\* objects of the scene can make.
Query ==
  /\ pc \in {"DrawScene", "Queried"}
  /\ \E h \in HitVectors :
       /\ hits' = h
       /\ pObject' = FindFirstIntersector(h).pObject
       /\ dst' = FindFirstIntersector(h).dst
  /\ pc' = "Queried"
  /\ UNCHANGED <<sceneObjects, pCamera, locals, shadeVars, callVars, outVars, queries, nullDeref>>

Render ==
  \/ DrawPixel
  \/ DrawDone
  \/ TracePrimary
  \/ TraceHit
  \/ TraceShadow
  \/ TraceShade
  \/ TraceNextLight
  \/ TraceReturn
  \/ PutPixel

\* Any scene: InitScene may build every scene list of the bounds.
Next == InitScene(Scenes) \/ Render \/ TraceNullDeref
Spec == Init /\ [][Next]_vars

\* The scenes of main: a ground plane lies under the camera.
NextMain == InitScene(GroundScenes) \/ Render
SpecMain == Init /\ [][NextMain]_vars /\ WF_vars(NextMain)

\* FindFirstIntersector alone, on any scene and any ray.
NextQuery == InitScene(Scenes) \/ Query
SpecQuery == Init /\ [][NextQuery]_vars

\* ------------------------------------------------------------- properties
\* A FindFirstIntersector call has returned.
QueryReturned == pc = "Queried"
Found == pObject
Dst == dst
HitSet == {i \in 1..Len(sceneObjects) : hits[i].hit}

\* C1: when some object reports a hit, FindFirstIntersector returns an object
\* that reported one, sets dst to its distance, no object that reported a hit
\* reported a smaller distance, and among the objects that reported that
\* same distance it is the earliest of the scene list.
C1_NearestEarliest ==
  (QueryReturned /\ HitSet # {}) =>
    /\ Found \in HitSet
    /\ Dst = hits[Found].distance
    /\ \A j \in HitSet : Dst <= hits[j].distance
    /\ \A j \in HitSet : hits[j].distance = Dst => Found <= j

\* Two objects report the same, smallest distance and the earlier is returned.
C1_Witness ==
  /\ QueryReturned
  /\ \E i \in HitSet, j \in HitSet :
       /\ i < j
       /\ hits[i].distance = hits[j].distance
       /\ \A k \in HitSet : hits[i].distance <= hits[k].distance
       /\ Found = i
       /\ Dst = hits[i].distance

\* C8: when no object of the scene reports a hit (an empty scene included)
\* FindFirstIntersector returns the empty pointer; so what it returns is an
\* object only when some object reported a hit.
C8_EmptyWhenNoHit ==
  QueryReturned =>
    /\ HitSet = {} => Found = NULL
    /\ Found # NULL => Found \in HitSet

\* A scene with objects, none of them hit, and the empty result.
C8_Witness ==
  /\ QueryReturned
  /\ Len(sceneObjects) > 0
  /\ HitSet = {}
  /\ Found = NULL

\* C2: a candidate's diffuse and specular terms are added to color exactly
\* when the shadow query returned that candidate itself; with any other
\* object returned, or none, nothing is added.
C2_AccumulatedIffSelf ==
  pc = "NextLight" =>
    /\ accumulated <=> occluder = light
    /\ occluder # light => contribution = Zero3

\* A candidate the shadow ray reaches first has added light to the color.
C2_Witness ==
  /\ pc = "NextLight"
  /\ occluder = light
  /\ accumulated
  /\ contribution # Zero3

\* C3: every channel of the color DrawScene hands to PutPixel lies in
\* [0, 255]: the clamped float it is converted from does (so the conversion
\* to uint8_t is the truncation), and so does the 8-bit channel, whatever
\* TraceRay returned.
C3_ChannelsInRange ==
  lastPut # <<>> =>
    \A k \in 1..3 :
      /\ 0 <= drawColor[k] /\ drawColor[k] <= 25500
      /\ lastPut.color[k] \in 0..255
      /\ lastPut.color[k] = drawColor[k] \div 100

\* TraceRay returned a channel above 1.0 and PutPixel received 255 for it.
C3_Witness ==
  /\ lastPut # <<>>
  /\ ~nullDeref
  /\ \E k \in 1..3 : color[k] > 100 /\ lastPut.color[k] = 255

\* C4: TraceRay is never active twice, and when it has returned for a pixel
\* it was called once and FindFirstIntersector 1 + N times, N the length of
\* the scene list.
C4_QueriesPerPixel ==
  /\ active <= 1
  /\ pc = "PutPixel" => (traced = 1 /\ queries = 1 + Len(sceneObjects))

\* A pixel of a scene of two objects or more has been traced.
C4_Witness ==
  /\ pc = "PutPixel"
  /\ Len(sceneObjects) >= 2
  /\ queries = 1 + Len(sceneObjects)
  /\ ~nullDeref

\* C5: TraceRay does not ask a missing object for its normal or material:
\* when the primary query returns nothing it never dereferences obj.
C5_NoNullQuery == ~nullDeref

\* C6: a candidate whose emissive color is zero adds nothing to the color,
\* visible or not (here for a candidate other than the hit object).
C6_DarkAddsNothing ==
  (/\ pc = "NextLight"
   /\ obj # NULL
   /\ light # obj
   /\ sceneObjects[light].mat.emissive = Zero3
   /\ sceneObjects[light].mat2.emissive = Zero3)
  => contribution = Zero3

\* C10: the emissive value color starts from, and the specular color of the
\* specular term, are those of the material at the intersection point, the
\* one the albedo is taken from.
C10_MaterialAtHitPoint ==
  /\ (pc = "Light" /\ light = 1 /\ obj # NULL) =>
       color = VScale(10, GetMaterial(sceneObjects[obj], interPos).emissive)
  /\ (pc = "NextLight" /\ accumulated /\ obj # NULL) =>
       contribution =
         VAdd(VScale(intensity, VMul(albedo, GetMaterial(sceneObjects[light], Origin).emissive)),
              VScale(10 * specular_intensity, GetMaterial(sceneObjects[obj], interPos).specular))

\* The pixels of the image in row-major order: row y = 0 first, x rising.
RowMajor ==
  [k \in 1..(ImageWidth * ImageHeight) |-> <<(k - 1) % ImageWidth, (k - 1) \div ImageWidth>>]
IsPrefix(s, t) == Len(s) <= Len(t) /\ \A i \in 1..Len(s) : s[i] = t[i]

\* C7: PutPixel is called for the pixels in row-major order, none skipped and
\* none twice, each time after one TraceRay call made from the camera
\* position with depth 0 and with the color that call returned; and
\* DrawScene returns, having written every pixel.
C7_EveryPixelOnce ==
  /\ [](IsPrefix(bitmap, RowMajor))
  /\ [](pc = "PutPixel" =>
          /\ traced = 1 /\ active = 0
          /\ rayorig = pCamera.position /\ depth = 0
          /\ bitmap \o <<(<<x, y>>)>> = SubSeq(RowMajor, 1, Len(bitmap) + 1)
          /\ drawColor = clamp(VScale(255, color), Zero3, vec3(25500, 25500, 25500)))
  /\ [](lastPut # <<>> =>
          /\ bitmap[Len(bitmap)] = <<lastPut.x, lastPut.y>>
          /\ \A k \in 1..3 : lastPut.color[k] = drawColor[k] \div 100)
  /\ <>[](pc = "Done" /\ bitmap = RowMajor)

\* DrawScene has returned with the whole image written.
C7_Witness ==
  /\ pc = "Done"
  /\ bitmap = RowMajor
  /\ Len(bitmap) = ImageWidth * ImageHeight

\* C9: InitScene has built the scene list and the camera before TraceRay is
\* first called, and no step after InitScene changes either.
C9_SceneReadOnly ==
  [][/\ pc # "InitScene" => (sceneObjects' = sceneObjects /\ pCamera' = pCamera)
     /\ active' > 0 => (pc' # "InitScene" /\ pCamera' = TheCamera)]_vars

\* The image of a scene of two objects or more is finished and the scene
\* and the camera are there.
C9_Witness ==
  /\ pc = "Done"
  /\ Len(bitmap) = ImageWidth * ImageHeight
  /\ Len(sceneObjects) >= 2
  /\ pCamera = TheCamera

====
